---- MODULE Spec2Model ----
(***************************************************************************)
(* SpendAI goal allocation & projection engine.                            *)
(*                                                                         *)
(*   GoalAllocator.handleCalculate      projection mode (sort, sequential  *)
(*                                      funding, deadline evaluation,      *)
(*                                      verdict)                           *)
(*   AutoAllocateModal.calculateAllocation / handleConfirm                 *)
(*                                      lump-sum mode (sort, greedy plan)  *)
(*   GoalsPage.handleAutoAllocateConfirm, addContributionToAction,         *)
(*   GoalService.addContribution        commit of a plan, one request per  *)
(*                                      item, against the goal store       *)
(*                                                                         *)
(* Money is counted in whole minor units (integers); dates are integer     *)
(* instants on a calendar with months of TicksPerMonth instants.           *)
(* A nullable value of the program is a sequence of length 0 (null or      *)
(* undefined) or 1 (the value).                                            *)
(***************************************************************************)
EXTENDS Integers, Sequences, FiniteSets, TLC

VARIABLES
    store,              \* goal documents of the goal store (backend collection)
    goals,              \* GoalsPage state `goals`: the snapshot last fetched
    sortedGoalsProj,    \* handleCalculate: const sortedGoals
    sortedGoalsLump,    \* calculateAllocation: const sortedGoals
    savingsAmount,      \* GoalAllocator state (number | undefined)
    frequency,          \* GoalAllocator state ("monthly" | "annually")
    allocationResults,  \* GoalAllocator state (AllocationResult[] | null)
    verdict,            \* GoalAllocator state (Verdict | null)
    goalCompletionPeriods, \* handleCalculate: the map goalId -> completion epoch
    calcInput,          \* handleCalculate: the inputs of the request that last ran the computation
    alertShown,         \* the alert of handleCalculate is on screen (it is modal: it is
                        \* dismissed before the next interaction)
    contributions,      \* goal store: the contributions array of each goal document
    userIds,            \* goal store: the userId (owner) of each goal document
    calls,              \* GoalService.addContribution: the calls made, each with its position
    fetchPending,       \* GoalsPage: a fetchGoals() call is in flight
    isAutoAllocateModalOpen, \* GoalsPage state
    isSubmitting,       \* GoalsPage state
    amountSaved,        \* AutoAllocateModal state (number | undefined)
    allocationPlan,     \* AutoAllocateModal state (AllocationPlanItem[] | null)
    showConfirmation,   \* AutoAllocateModal state
    planInput,          \* calculateAllocation: the inputs the current plan was computed from,
                        \* and whether handleConfirm has been called with that plan
    commit,             \* handleAutoAllocateConfirm in progress: its argument, the store as
                        \* it was when it started, the inputs its plan was computed from,
                        \* and one request per item
    outcome             \* handleAutoAllocateConfirm finished: counts, first message, toast

projVars == <<savingsAmount, frequency, allocationResults, verdict,
              goalCompletionPeriods, calcInput, alertShown>>

modalVars == <<amountSaved, allocationPlan, showConfirmation, planInput>>

pageVars == <<contributions, fetchPending, isAutoAllocateModalOpen, isSubmitting,
              commit, outcome>>

backendVars == <<userIds, calls>>

vars == <<store, goals, sortedGoalsProj, sortedGoalsLump, projVars, modalVars, pageVars,
          backendVars>>

----------------------------------------------------------------------------
(* Bounds of the model *)

MaxGoals == 2       \* goals in a snapshot
MaxSortGoals == 3   \* goals in an input list of the sort alone
MaxAmount == 2      \* targetAmount in 1..MaxAmount, currentAmount in 0..MaxAmount
MaxDeadline == 2    \* deadlines are instants 1..MaxDeadline
MaxPriority == 2    \* explicit priorities 1..MaxPriority (the DTO allows 1..5)
MaxSavings == 2     \* amounts typed into the savings field: -1..MaxSavings
MaxSnapshotPriority == 1 \* explicit priorities of the snapshots of the component specifications
MaxNow == 2         \* new Date() is an instant 0..MaxNow
TicksPerMonth == 2  \* instants per calendar month
MaxPool == 3        \* amounts typed into the lump-sum field: -1..MaxPool
MaxCommits == 1     \* commits started in one behaviour

----------------------------------------------------------------------------
(* Nullable values *)

Null == <<>>
Some(x) == <<x>>
IsNull(o) == o = <<>>
Val(o) == o[1]

(* goal.deadline / goal.priority absent (undefined) *)
NoDeadline == -1
NoPriority == -1

(* a.priority ?? 999 *)
DefaultPriority == 999

Max2(a, b) == IF a >= b THEN a ELSE b
Min2(a, b) == IF a <= b THEN a ELSE b

----------------------------------------------------------------------------
(* Goal documents as the goal store returns them (GoalResponse) *)

GoalFields(amounts, deadlines, priorities) ==
    [targetAmount : amounts \ {0}, currentAmount : amounts,
     deadline : deadlines, priority : priorities]

WithIds(fs) ==
    [i \in 1..Len(fs) |->
        [id |-> i, targetAmount |-> fs[i].targetAmount,
         currentAmount |-> fs[i].currentAmount,
         deadline |-> fs[i].deadline, priority |-> fs[i].priority]]

GoalLists(amounts, deadlines, priorities, n) ==
    { WithIds(fs) : fs \in UNION { [1..k -> GoalFields(amounts, deadlines, priorities)] : k \in 0..n } }

AllDeadlines == {NoDeadline} \cup (1..MaxDeadline)
AllPriorities == {NoPriority} \cup (1..MaxPriority)
AllAmounts == 0..MaxAmount
SnapshotPriorities == {NoPriority} \cup (1..MaxSnapshotPriority)

(* The snapshots the projection specification starts from *)
Snapshots == GoalLists(AllAmounts, AllDeadlines, SnapshotPriorities, MaxGoals)

(* The snapshots the lump-sum specification starts from: the order of the   *)
(* plan is decided by deadline presence and remaining amount                *)
AllocateSnapshots == GoalLists(AllAmounts, {NoDeadline, 1}, {NoPriority}, MaxGoals)

(* Math.max(0, goal.targetAmount - goal.currentAmount) *)
Remaining(g) == Max2(0, g.targetAmount - g.currentAmount)

----------------------------------------------------------------------------
(* GoalSortingPolicy *)

PriorityOrDefault_Zero(g) == IF g.priority = NoPriority THEN 0 ELSE g.priority

(* a.priority ?? 999 *)
PriorityOrDefault(g) == IF g.priority = NoPriority THEN DefaultPriority ELSE g.priority

(* The comparator of handleCalculate; the result is negative, zero or positive *)
CompareProj_TieFirst(a, b) ==
    IF a.deadline # NoDeadline /\ b.deadline # NoDeadline /\ a.deadline < b.deadline THEN -1
    ELSE IF a.deadline # NoDeadline /\ b.deadline # NoDeadline /\ a.deadline > b.deadline THEN 1
    ELSE IF a.deadline # NoDeadline /\ b.deadline = NoDeadline THEN -1
    ELSE IF a.deadline = NoDeadline /\ b.deadline # NoDeadline THEN 1
    ELSE IF PriorityOrDefault(a) < PriorityOrDefault(b) THEN -1
    ELSE IF PriorityOrDefault(a) > PriorityOrDefault(b) THEN 1
    ELSE IF Remaining(a) < Remaining(b) THEN -1
    ELSE 1

CompareProj(a, b) ==
    IF a.deadline # NoDeadline /\ b.deadline # NoDeadline /\ a.deadline < b.deadline THEN -1
    ELSE IF a.deadline # NoDeadline /\ b.deadline # NoDeadline /\ a.deadline > b.deadline THEN 1
    ELSE IF a.deadline # NoDeadline /\ b.deadline = NoDeadline THEN -1
    ELSE IF a.deadline = NoDeadline /\ b.deadline # NoDeadline THEN 1
    ELSE IF PriorityOrDefault(a) < PriorityOrDefault(b) THEN -1
    ELSE IF PriorityOrDefault(a) > PriorityOrDefault(b) THEN 1
    ELSE IF Remaining(a) < Remaining(b) THEN -1
    ELSE IF Remaining(a) > Remaining(b) THEN 1
    ELSE 0

CompareLump_ByTarget(a, b) ==
    IF a.deadline # NoDeadline /\ b.deadline # NoDeadline /\ a.deadline < b.deadline THEN -1
    ELSE IF a.deadline # NoDeadline /\ b.deadline # NoDeadline /\ a.deadline > b.deadline THEN 1
    ELSE IF a.deadline # NoDeadline /\ b.deadline = NoDeadline THEN -1
    ELSE IF a.deadline = NoDeadline /\ b.deadline # NoDeadline THEN 1
    ELSE IF PriorityOrDefault(a) < PriorityOrDefault(b) THEN -1
    ELSE IF PriorityOrDefault(a) > PriorityOrDefault(b) THEN 1
    ELSE a.targetAmount - b.targetAmount
(* The comparator of calculateAllocation: the last key is remainingA - remainingB *)
CompareLump(a, b) ==
    IF a.deadline # NoDeadline /\ b.deadline # NoDeadline /\ a.deadline < b.deadline THEN -1
    ELSE IF a.deadline # NoDeadline /\ b.deadline # NoDeadline /\ a.deadline > b.deadline THEN 1
    ELSE IF a.deadline # NoDeadline /\ b.deadline = NoDeadline THEN -1
    ELSE IF a.deadline = NoDeadline /\ b.deadline # NoDeadline THEN 1
    ELSE IF PriorityOrDefault(a) < PriorityOrDefault(b) THEN -1
    ELSE IF PriorityOrDefault(a) > PriorityOrDefault(b) THEN 1
    ELSE Remaining(a) - Remaining(b)

(* The comparator a sort is called with, named by the handler that passes it *)
Compare(cmp, a, b) ==
    IF cmp = "handleCalculate" THEN CompareProj(a, b) ELSE CompareLump(a, b)

(* Array.prototype.sort with a comparator: a stable sort (ECMAScript 2019), *)
(* computed as an insertion sort: each element goes after the last element  *)
(* that does not compare greater than it.                                   *)
InsertSorted(cmp, sorted, x) ==
    LET k == CHOOSE k \in 0..Len(sorted) :
                /\ k = 0 \/ Compare(cmp, sorted[k], x) <= 0
                /\ \A m \in (k+1)..Len(sorted) : Compare(cmp, sorted[m], x) > 0
    IN  SubSeq(sorted, 1, k) \o <<x>> \o SubSeq(sorted, k + 1, Len(sorted))

ArraySort(cmp, s) ==
    LET f[n \in 0..Len(s)] == IF n = 0 THEN <<>> ELSE InsertSorted(cmp, f[n-1], s[n])
    IN  f[Len(s)]

(* [...goals].sort(...) sorts a copy made by the spread: the array the caller *)
(* passed is afterwards what it was                                          *)
GoalsAfterSort_InPlace(gs, sorted) == sorted

GoalsAfterSort(gs, sorted) == gs

(* [...goals].sort(...) of handleCalculate and of calculateAllocation *)
SortGoalsProj(gs) == ArraySort("handleCalculate", gs)
SortGoalsLump(gs) == ArraySort("calculateAllocation", gs)

----------------------------------------------------------------------------
(* date-fns on a calendar whose months all have TicksPerMonth instants (so  *)
(* the end-of-month clamping of addMonths and differenceInMonths does not   *)
(* arise)                                                                   *)

MonthsPerYear == 12

Abs_Identity(x) == x
Abs(x) == IF x < 0 THEN -x ELSE x
compareAsc(a, b) == IF a < b THEN -1 ELSE IF a > b THEN 1 ELSE 0
addMonths(t, n) == t + n * TicksPerMonth
addYears(t, n) == addMonths(t, n * MonthsPerYear)
MonthIndex(t) == t \div TicksPerMonth
YearIndex(t) == t \div (TicksPerMonth * MonthsPerYear)
differenceInCalendarMonths(a, b) == MonthIndex(a) - MonthIndex(b)
differenceInCalendarYears(a, b) == YearIndex(a) - YearIndex(b)

differenceInMonths_Calendar(a, b) == differenceInCalendarMonths(a, b)
differenceInMonths(a, b) ==
    LET sign == compareAsc(a, b)
        difference == Abs(differenceInCalendarMonths(a, b))
    IN  IF difference < 1 THEN 0
        ELSE LET moved == addMonths(a, -(sign * difference))
                 isLastMonthNotFull == compareAsc(moved, b) = -sign
             IN  sign * (difference - (IF isLastMonthNotFull THEN 1 ELSE 0))

differenceInYears(a, b) ==
    LET sign == compareAsc(a, b)
        difference == Abs(differenceInCalendarYears(a, b))
        inYearA == a % (TicksPerMonth * MonthsPerYear)
        inYearB == b % (TicksPerMonth * MonthsPerYear)
        isLastYearNotFull == compareAsc(inYearA, inYearB) = -sign
    IN  sign * (difference - (IF isLastYearNotFull THEN 1 ELSE 0))

----------------------------------------------------------------------------
(* SequentialFundingSimulator: the loop of handleCalculate *)

(* Infinity, as stored in goalCompletionPeriods for an unreachable goal *)
Infinity == -1
isFinite_Always(x) == TRUE
isFinite(x) == x # Infinity

(* Math.ceil(amountNeeded / savingsPerPeriod), both positive *)
CeilDiv_Floor(a, b) == a \div b
CeilDiv(a, b) == (a + b - 1) \div b

EmptyMap == [k \in {} |-> 0]
MapSet(m, k, v) == (k :> v) @@ m

(* One iteration of `for (const goal of sortedGoals)`; st = [cum, map] *)
FundStep_NotCumulative(st, goal, savingsPerPeriod) ==
    LET amountNeeded == Max2(0, goal.targetAmount - goal.currentAmount)
    IN  IF amountNeeded <= 0
        THEN [cum |-> st.cum, map |-> MapSet(st.map, goal.id, 0)]
        ELSE IF savingsPerPeriod <= 0
        THEN [cum |-> st.cum, map |-> MapSet(st.map, goal.id, Infinity)]
        ELSE LET periodsForThisGoal == CeilDiv(amountNeeded, savingsPerPeriod)
             IN  [cum |-> st.cum + periodsForThisGoal,
                  map |-> MapSet(st.map, goal.id, periodsForThisGoal)]

FundStep_MetTakesAPeriod(st, goal, savingsPerPeriod) ==
    LET amountNeeded == Max2(0, goal.targetAmount - goal.currentAmount)
    IN  IF amountNeeded <= 0
        THEN [cum |-> st.cum + 1, map |-> MapSet(st.map, goal.id, 0)]
        ELSE IF savingsPerPeriod <= 0
        THEN [cum |-> st.cum, map |-> MapSet(st.map, goal.id, Infinity)]
        ELSE LET cum == st.cum + CeilDiv(amountNeeded, savingsPerPeriod)
             IN  [cum |-> cum, map |-> MapSet(st.map, goal.id, cum)]

FundStep_UnreachableAsMet(st, goal, savingsPerPeriod) ==
    LET amountNeeded == Max2(0, goal.targetAmount - goal.currentAmount)
    IN  IF amountNeeded <= 0 \/ savingsPerPeriod <= 0
        THEN [cum |-> st.cum, map |-> MapSet(st.map, goal.id, 0)]
        ELSE LET cum == st.cum + CeilDiv(amountNeeded, savingsPerPeriod)
             IN  [cum |-> cum, map |-> MapSet(st.map, goal.id, cum)]

FundStep(st, goal, savingsPerPeriod) ==
    LET amountNeeded == Max2(0, goal.targetAmount - goal.currentAmount)
    IN  IF amountNeeded <= 0
        THEN [cum |-> st.cum, map |-> MapSet(st.map, goal.id, 0)]
        ELSE IF savingsPerPeriod <= 0
        THEN [cum |-> st.cum, map |-> MapSet(st.map, goal.id, Infinity)]
        ELSE LET cum == st.cum + CeilDiv(amountNeeded, savingsPerPeriod)
             IN  [cum |-> cum, map |-> MapSet(st.map, goal.id, cum)]

SimulateFunding(sorted, savingsPerPeriod) ==
    LET f[n \in 0..Len(sorted)] ==
            IF n = 0 THEN [cum |-> 0, map |-> EmptyMap]
            ELSE FundStep(f[n-1], sorted[n], savingsPerPeriod)
    IN  f[Len(sorted)].map

----------------------------------------------------------------------------
(* DeadlineEvaluator: the body of goals.map(...) in handleCalculate *)

(* requiredPerPeriod: null, Infinity, or the quotient num / den *)
Quotient_Product(n, d) == [inf |-> FALSE, num |-> n * d, den |-> 1]
Quotient(n, d) == [inf |-> FALSE, num |-> n, den |-> d]
InfiniteAmount == [inf |-> TRUE, num |-> 0, den |-> 1]

(* timeDifference: the label and, for ahead / behind, the period count *)
Label(kind, n) == [kind |-> kind, periods |-> n]

(* timeDifference = projectedDate ? "Completes" : "N/A*" (no deadline) *)
NoDeadlineLabel_AlwaysCompletes(projectedDate) == Label("Completes", 0)

NoDeadlineLabel(projectedDate) ==
    IF ~IsNull(projectedDate) THEN Label("Completes", 0) ELSE Label("N/A*", 0)

EvaluateGoal(goal, periodsMap, freq, now) ==
    LET completedPeriod == IF goal.id \in DOMAIN periodsMap THEN Some(periodsMap[goal.id]) ELSE Null
        finite == ~IsNull(completedPeriod) /\ isFinite(Val(completedPeriod))
        projectedPeriods == IF finite THEN completedPeriod ELSE Null
        projectedDate ==
            IF finite /\ Val(completedPeriod) >= 0
            THEN Some(IF freq = "monthly" THEN addMonths(now, Val(completedPeriod))
                                          ELSE addYears(now, Val(completedPeriod)))
            ELSE Null
        deadlineDate == IF goal.deadline # NoDeadline THEN Some(goal.deadline) ELSE Null
        diffPeriods == IF freq = "monthly"
                       THEN differenceInMonths(Val(deadlineDate), Val(projectedDate))
                       ELSE differenceInYears(Val(deadlineDate), Val(projectedDate))
        periodsToDeadline == IF freq = "monthly"
                             THEN differenceInMonths(Val(deadlineDate), now)
                             ELSE differenceInYears(Val(deadlineDate), now)
    IN  IF ~IsNull(deadlineDate)
        THEN [goalId |-> goal.id,
              requiredPerPeriod |->
                  IF periodsToDeadline > 0
                  THEN Some(Quotient(Max2(0, goal.targetAmount - goal.currentAmount), periodsToDeadline))
                  ELSE IF goal.targetAmount > goal.currentAmount
                       THEN Some(InfiniteAmount) ELSE Some(Quotient(0, 1)),
              projectedPeriods |-> projectedPeriods,
              projectedDate |-> projectedDate,
              deadline |-> deadlineDate,
              deadlineMet |->
                  IF ~IsNull(projectedDate)
                  THEN Some(Val(projectedDate) <= Val(deadlineDate)) ELSE Some(FALSE),
              timeDifference |->
                  IF ~IsNull(projectedDate)
                  THEN IF diffPeriods >= 0
                       THEN IF diffPeriods = 0 THEN Label("On time", 0)
                                               ELSE Label("ahead", diffPeriods)
                       ELSE Label("behind", Abs(diffPeriods))
                  ELSE Label("Projected Miss", 0)]
        ELSE [goalId |-> goal.id,
              requiredPerPeriod |-> Null,
              projectedPeriods |-> projectedPeriods,
              projectedDate |-> projectedDate,
              deadline |-> deadlineDate,
              deadlineMet |-> Null,
              timeDifference |-> NoDeadlineLabel(projectedDate)]

----------------------------------------------------------------------------
(* VerdictAggregator: step 4 of handleCalculate *)

QAdd(p, q) == [inf |-> FALSE, num |-> p.num * q.den + q.num * p.den, den |-> p.den * q.den]

(* results.reduce(...): the sum of the non-null, finite requiredPerPeriod *)
TotalRequired(results) ==
    LET f[n \in 0..Len(results)] ==
            IF n = 0 THEN Quotient(0, 1)
            ELSE IF ~IsNull(results[n].requiredPerPeriod) /\ ~Val(results[n].requiredPerPeriod).inf
                 THEN QAdd(f[n-1], Val(results[n].requiredPerPeriod))
                 ELSE f[n-1]
    IN  f[Len(results)]

(* Math.max(0, total - savingsPerPeriod) *)
Shortfall_Signed(total, savingsPerPeriod) ==
    Quotient(total.num - savingsPerPeriod * total.den, total.den)
Shortfall(total, savingsPerPeriod) ==
    IF total.num - savingsPerPeriod * total.den > 0
    THEN Quotient(total.num - savingsPerPeriod * total.den, total.den)
    ELSE Quotient(0, 1)

MakeVerdict_AlwaysShortfall(results, savingsPerPeriod) ==
    LET allMetOnTime == ~(\E i \in 1..Len(results) : results[i].deadlineMet = Some(FALSE))
    IN  [allMetOnTime |-> allMetOnTime,
         additionalSavingsNeeded |->
             Some(Shortfall(TotalRequired(results), savingsPerPeriod))]

MakeVerdict_UnknownCountsAsMiss(results, savingsPerPeriod) ==
    LET allMetOnTime == \A i \in 1..Len(results) : results[i].deadlineMet = Some(TRUE)
    IN  [allMetOnTime |-> allMetOnTime,
         additionalSavingsNeeded |->
             IF allMetOnTime THEN Null
             ELSE Some(Shortfall(TotalRequired(results), savingsPerPeriod))]

MakeVerdict(results, savingsPerPeriod) ==
    LET allMetOnTime == ~(\E i \in 1..Len(results) : results[i].deadlineMet = Some(FALSE))
    IN  [allMetOnTime |-> allMetOnTime,
         additionalSavingsNeeded |->
             IF allMetOnTime THEN Null
             ELSE Some(Shortfall(TotalRequired(results), savingsPerPeriod))]

----------------------------------------------------------------------------
(* GoalAllocator component *)

(* useState<number | undefined>(5000) *)
DefaultSavings == 5000

Frequencies == {"monthly", "annually"}
SavingsInputs == {Null} \cup { Some(n) : n \in (-1)..MaxSavings }

InitProjVars ==
    /\ savingsAmount = Some(DefaultSavings)
    /\ frequency = "monthly"
    /\ allocationResults = Null
    /\ verdict = Null
    /\ goalCompletionPeriods = Null
    /\ calcInput = Null
    /\ alertShown = FALSE

(* onChange of the savings field *)
SetSavingsAmount ==
    /\ \E v \in SavingsInputs : savingsAmount' = v
    /\ alertShown' = FALSE
    /\ UNCHANGED <<backendVars, store, goals, sortedGoalsProj, sortedGoalsLump, frequency,
                   allocationResults, verdict, goalCompletionPeriods, calcInput,
                   modalVars, pageVars>>

(* onValueChange of the frequency select *)
SetFrequency ==
    /\ \E f \in Frequencies : frequency' = f
    /\ alertShown' = FALSE
    /\ UNCHANGED <<backendVars, store, goals, sortedGoalsProj, sortedGoalsLump, savingsAmount,
                   allocationResults, verdict, goalCompletionPeriods, calcInput,
                   modalVars, pageVars>>

SavingsRejected_MissingOnly(amt) == IsNull(amt) \/ Val(amt) = 0
(* if (!savingsAmount || savingsAmount <= 0) *)
SavingsRejected(amt) == IsNull(amt) \/ Val(amt) = 0 \/ Val(amt) <= 0

(* disabled={isCalculating || !savingsAmount} of the Calculate button *)
CalculateDisabled == IsNull(savingsAmount) \/ Val(savingsAmount) = 0

(* handleCalculate after its validation: sort, simulate, evaluate each goal,  *)
(* aggregate, and set the component's state                                  *)
ComputeProjection(savingsPerPeriod, freq, now) ==
    LET sortedGoals == SortGoalsProj(goals)
        goalsAfter == GoalsAfterSort(goals, sortedGoals)
        periodsMap == SimulateFunding(sortedGoals, savingsPerPeriod)
        results == [i \in 1..Len(goalsAfter) |->
                       EvaluateGoal(goalsAfter[i], periodsMap, freq, now)]
    IN  /\ sortedGoalsProj' = Some(sortedGoals)
        /\ goalCompletionPeriods' = Some(periodsMap)
        /\ allocationResults' = Some(results)
        /\ verdict' = Some(MakeVerdict(results, savingsPerPeriod))
        /\ calcInput' = Some([savingsAmount |-> Some(savingsPerPeriod), goals |-> goals,
                              frequency |-> freq, now |-> now])
        /\ alertShown' = FALSE
        /\ goals' = goalsAfter
        /\ UNCHANGED <<backendVars, store, sortedGoalsLump, modalVars, pageVars>>

HandleCalculate ==
    /\ ~CalculateDisabled
    /\ \E now \in 0..MaxNow :
        IF SavingsRejected(savingsAmount)
        THEN /\ alertShown' = TRUE
             /\ UNCHANGED <<backendVars, store, goals, sortedGoalsProj, sortedGoalsLump, savingsAmount,
                            frequency, allocationResults, verdict, goalCompletionPeriods,
                            calcInput, modalVars, pageVars>>
        ELSE /\ ComputeProjection(Val(savingsAmount), frequency, now)
             /\ UNCHANGED <<savingsAmount, frequency>>

----------------------------------------------------------------------------
(* LumpSumAllocator: the greedy loop of calculateAllocation *)

PlanItem_AmountOnly(goal, allocated) ==
    [goalId |-> goal.id, amountToAllocate |-> allocated,
     currentAmount |-> 0, targetAmount |-> 0]

PlanItem(goal, allocated) ==
    [goalId |-> goal.id, amountToAllocate |-> allocated,
     currentAmount |-> goal.currentAmount, targetAmount |-> goal.targetAmount]

(* new Map(goals.map((g) => [g.id, g.currentAmount])) *)
InitialBalances_Empty(gs) == EmptyMap

InitialBalances(gs) ==
    LET f[n \in 0..Len(gs)] ==
            IF n = 0 THEN EmptyMap ELSE MapSet(f[n-1], gs[n].id, gs[n].currentAmount)
    IN  f[Len(gs)]

(* One iteration of `for (const goal of sortedGoals)`;                      *)
(* st = [remainingToAllocate, currentBalances, plan]                        *)
AllocateStep_NoPoolCap(st, goal) ==
    LET currentBalance == IF goal.id \in DOMAIN st.currentBalances
                          THEN st.currentBalances[goal.id] ELSE 0
        amountNeeded == Max2(0, goal.targetAmount - currentBalance)
        allocated == IF amountNeeded > 0 /\ st.remainingToAllocate > 0 THEN amountNeeded ELSE 0
    IN  [remainingToAllocate |-> st.remainingToAllocate - allocated,
         currentBalances |-> MapSet(st.currentBalances, goal.id, currentBalance + allocated),
         plan |-> Append(st.plan, PlanItem(goal, allocated))]

AllocateStep_OneUnitEach(st, goal) ==
    LET currentBalance == IF goal.id \in DOMAIN st.currentBalances
                          THEN st.currentBalances[goal.id] ELSE 0
        amountNeeded == Max2(0, goal.targetAmount - currentBalance)
        allocated == IF amountNeeded > 0 /\ st.remainingToAllocate > 0
                     THEN Min2(1, Min2(amountNeeded, st.remainingToAllocate)) ELSE 0
    IN  [remainingToAllocate |-> st.remainingToAllocate - allocated,
         currentBalances |-> MapSet(st.currentBalances, goal.id, currentBalance + allocated),
         plan |-> Append(st.plan, PlanItem(goal, allocated))]

AllocateStep_UpToTarget(st, goal) ==
    LET currentBalance == IF goal.id \in DOMAIN st.currentBalances
                          THEN st.currentBalances[goal.id] ELSE 0
        amountNeeded == Max2(0, goal.targetAmount)
        allocated == IF amountNeeded > 0 /\ st.remainingToAllocate > 0
                     THEN Min2(amountNeeded, st.remainingToAllocate) ELSE 0
    IN  [remainingToAllocate |-> st.remainingToAllocate - allocated,
         currentBalances |->
             IF amountNeeded > 0 /\ st.remainingToAllocate > 0
             THEN MapSet(st.currentBalances, goal.id, currentBalance + allocated)
             ELSE st.currentBalances,
         plan |-> Append(st.plan, PlanItem(goal, allocated))]

AllocateStep(st, goal) ==
    LET currentBalance == IF goal.id \in DOMAIN st.currentBalances
                          THEN st.currentBalances[goal.id] ELSE 0
        amountNeeded == Max2(0, goal.targetAmount - currentBalance)
        allocated == IF amountNeeded > 0 /\ st.remainingToAllocate > 0
                     THEN Min2(amountNeeded, st.remainingToAllocate) ELSE 0
    IN  [remainingToAllocate |-> st.remainingToAllocate - allocated,
         currentBalances |->
             IF amountNeeded > 0 /\ st.remainingToAllocate > 0
             THEN MapSet(st.currentBalances, goal.id, currentBalance + allocated)
             ELSE st.currentBalances,
         plan |-> Append(st.plan, PlanItem(goal, allocated))]

AllocatePlan(sorted, gs, amount) ==
    LET f[n \in 0..Len(sorted)] ==
            IF n = 0 THEN [remainingToAllocate |-> amount,
                           currentBalances |-> InitialBalances(gs), plan |-> <<>>]
            ELSE AllocateStep(f[n-1], sorted[n])
    IN  f[Len(sorted)].plan

(* allocationPlan.reduce((sum, item) => sum + item.amountToAllocate, 0) *)
SumAllocated(plan) ==
    LET f[n \in 0..Len(plan)] == IF n = 0 THEN 0 ELSE f[n-1] + plan[n].amountToAllocate
    IN  f[Len(plan)]

(* useMemo totalAllocated, amountLeftOver *)
totalAllocated == IF IsNull(allocationPlan) THEN 0 ELSE SumAllocated(Val(allocationPlan))
amountLeftOver == IF IsNull(amountSaved) THEN 0 ELSE Val(amountSaved) - totalAllocated

----------------------------------------------------------------------------
(* AutoAllocateModal component *)

InitModalVars ==
    /\ amountSaved = Null
    /\ allocationPlan = Null
    /\ showConfirmation = FALSE
    /\ planInput = Null

AmountInputs == {Null} \cup { Some(n) : n \in (-1)..MaxPool }

(* "Allocate Savings" button of the page *)
OpenAutoAllocateModal ==
    /\ ~isAutoAllocateModalOpen
    /\ isAutoAllocateModalOpen' = TRUE
    /\ UNCHANGED <<backendVars, store, goals, sortedGoalsProj, sortedGoalsLump, projVars, modalVars,
                   contributions, fetchPending, isSubmitting, commit, outcome>>

(* onClose of the dialog; the effect on [isOpen] then resets the modal *)
CloseAutoAllocateModal ==
    /\ isAutoAllocateModalOpen
    /\ isAutoAllocateModalOpen' = FALSE
    /\ amountSaved' = Null
    /\ allocationPlan' = Null
    /\ showConfirmation' = FALSE
    /\ planInput' = Null
    /\ UNCHANGED <<backendVars, store, goals, sortedGoalsProj, sortedGoalsLump, projVars,
                   contributions, fetchPending, isSubmitting, commit, outcome>>

(* onChange of the amount field (shown while the confirmation is not) *)
HandleAmountChange ==
    /\ isAutoAllocateModalOpen /\ ~showConfirmation
    /\ \E v \in AmountInputs :
          amountSaved' = IF ~IsNull(v) /\ Val(v) < 0 THEN Some(0) ELSE v
    /\ showConfirmation' = FALSE
    /\ allocationPlan' = Null
    /\ planInput' = Null
    /\ UNCHANGED <<backendVars, store, goals, sortedGoalsProj, sortedGoalsLump, projVars, pageVars>>

(* if (!amountSaved || amountSaved <= 0 || !goals || goals.length === 0) *)
AllocationRejected(amt, gs) ==
    IsNull(amt) \/ Val(amt) = 0 \/ Val(amt) <= 0 \/ Len(gs) = 0

(* disabled={!amountSaved || amountSaved <= 0} of the Calculate Allocation button *)
CalculateAllocationDisabled == IsNull(amountSaved) \/ Val(amountSaved) = 0 \/ Val(amountSaved) <= 0

CalculateAllocation ==
    /\ isAutoAllocateModalOpen /\ ~showConfirmation
    /\ ~CalculateAllocationDisabled
    /\ IF AllocationRejected(amountSaved, goals)
       THEN /\ allocationPlan' = Some(<<>>)
            /\ planInput' = Null
            /\ UNCHANGED <<showConfirmation, sortedGoalsLump, goals>>
       ELSE LET sortedGoals == SortGoalsLump(goals)
            IN  /\ sortedGoalsLump' = Some(sortedGoals)
                /\ goals' = GoalsAfterSort(goals, sortedGoals)
                /\ allocationPlan' = Some(AllocatePlan(sortedGoals, goals, Val(amountSaved)))
                /\ showConfirmation' = TRUE
                /\ planInput' = Some([amount |-> amountSaved, goals |-> goals,
                                      confirmed |-> FALSE])
    /\ UNCHANGED <<backendVars, store, sortedGoalsProj, projVars, amountSaved, pageVars>>

(* "Back" button of the confirmation view *)
BackFromConfirmation ==
    /\ isAutoAllocateModalOpen /\ showConfirmation /\ ~isSubmitting
    /\ showConfirmation' = FALSE
    /\ UNCHANGED <<backendVars, store, goals, sortedGoalsProj, sortedGoalsLump, projVars,
                   amountSaved, allocationPlan, planInput, pageVars>>

----------------------------------------------------------------------------
(* Commit of a plan: handleConfirm, handleAutoAllocateConfirm,              *)
(* addContributionToAction, GoalService.addContribution                     *)

(* The signed-in user, owner of the goals the page shows *)
SignedInUser == "u1"

InitBackendVars ==
    /\ userIds = [i \in 1..Len(store) |-> SignedInUser]
    /\ calls = <<>>

InitPageVars ==
    /\ contributions = [i \in 1..Len(store) |-> <<>>]
    /\ fetchPending = FALSE
    /\ isAutoAllocateModalOpen = FALSE
    /\ isSubmitting = FALSE
    /\ commit = Null
    /\ outcome = Null

(* The messages a failed request carries *)
NotAuthorizedMessage == "Not authorized. JWT cookie missing or invalid."
MustBePositiveMessage == "Contribution amount must be positive"
NotFoundMessage == "Failed to add contribution: Not Found (404)"
FetchFailedMessage == "fetch failed"
UnknownAllocationError == "Unknown allocation error."
NetworkOrUnexpectedError == "Network or unexpected error during allocation."
(* reason?.message of a rejected server-action call: absent, or the browser's text *)
RejectionMessages == {Null, Some("Failed to fetch")}

(* What Promise.allSettled reports for one request *)
Fulfilled(isError, message) == [status |-> "fulfilled", isError |-> isError, message |-> message]
Rejected(message) == [status |-> "rejected", isError |-> TRUE, message |-> message]

NewRequest(item) ==
    [goalId |-> item.goalId, amount |-> item.amountToAllocate,
     phase |-> "inFlight", applied |-> FALSE, result |-> Null]

(* allocationPlan.filter((item) => item.amountToAllocate > 0) *)
FinalPlan_Unfiltered(plan) == plan

FinalPlan(plan) == SelectSeq(plan, LAMBDA item : item.amountToAllocate > 0)

(* allocationPlan.map((item) => addContributionToAction(item.goalId, item.amountToAllocate)) *)
IssueRequests(finalPlan) == [i \in 1..Len(finalPlan) |-> NewRequest(finalPlan[i])]

(* disabled={isLoading || totalAllocated <= 0} of the Confirm button *)
ConfirmDisabled_IgnoresLoading == totalAllocated <= 0

ConfirmDisabled == isSubmitting \/ totalAllocated <= 0

(* Commits started in one behaviour: one more over the snapshots that are    *)
(* shorter than MaxGoals                                                     *)
CommitBudget == IF Len(store) < MaxGoals THEN MaxCommits + 1 ELSE MaxCommits

(* handleConfirm, and handleAutoAllocateConfirm up to its await *)
HandleConfirm ==
    /\ isAutoAllocateModalOpen /\ showConfirmation
    /\ ~ConfirmDisabled
    /\ ~IsNull(allocationPlan)
    /\ ~IsNull(commit) => Val(commit).round < CommitBudget
    /\ isSubmitting' = TRUE
    /\ commit' = Some([plan |-> FinalPlan(Val(allocationPlan)),
                       raw |-> Val(allocationPlan),
                       storeAtStart |-> store,
                       input |-> planInput,
                       requests |-> IssueRequests(FinalPlan(Val(allocationPlan))),
                       round |-> IF IsNull(commit) THEN 1 ELSE Val(commit).round + 1])
    /\ outcome' = Null
    /\ planInput' = IF IsNull(planInput) THEN planInput
                    ELSE Some([Val(planInput) EXCEPT !.confirmed = TRUE])
    /\ UNCHANGED <<backendVars, store, goals, sortedGoalsProj, sortedGoalsLump, projVars,
                   amountSaved, allocationPlan, showConfirmation,
                   contributions, fetchPending, isAutoAllocateModalOpen>>

Requests == IF IsNull(commit) THEN <<>> ELSE Val(commit).requests

SetRequest(i, r) == commit' = Some([Val(commit) EXCEPT !.requests[i] = r])

Settle(i, applied, result) ==
    SetRequest(i, [Requests[i] EXCEPT !.phase = "settled", !.applied = applied,
                                      !.result = Some(result)])

(* addContributionToAction returns { error } without a call to the goal     *)
(* store having been made: getAuthHeaders throws, or its own check of the   *)
(* amount fails                                                             *)
ActionFailsBeforeStore ==
    \E i \in 1..Len(Requests) :
        /\ Requests[i].phase = "inFlight"
        /\ IF Requests[i].amount <= 0
           THEN Settle(i, FALSE, Fulfilled(TRUE, Some(MustBePositiveMessage)))
           ELSE Settle(i, FALSE, Fulfilled(TRUE, Some(NotAuthorizedMessage)))
        /\ UNCHANGED <<backendVars, store, goals, sortedGoalsProj, sortedGoalsLump, projVars, modalVars,
                       contributions, fetchPending, isAutoAllocateModalOpen, isSubmitting,
                       outcome>>

(* GoalService.addContribution: findOneAndUpdate with $inc and $push *)
ContributionsAfterPush_Replace(contribs, id, amount) ==
    [contribs EXCEPT ![id] = <<amount>>]

ContributionsAfterPush(contribs, id, amount) ==
    [contribs EXCEPT ![id] = Append(@, amount)]

StoreAfterContribution_Overwrite(docs, id, amount) ==
    [docs EXCEPT ![id].currentAmount = amount]

StoreAfterContribution(docs, id, amount) ==
    [docs EXCEPT ![id].currentAmount = @ + amount]

StoreApplies ==
    \E i \in 1..Len(Requests) :
        /\ Requests[i].phase = "inFlight"
        /\ Requests[i].amount > 0
        /\ store' = StoreAfterContribution(store, Requests[i].goalId, Requests[i].amount)
        /\ contributions' = ContributionsAfterPush(contributions, Requests[i].goalId,
                                                   Requests[i].amount)
        /\ SetRequest(i, [Requests[i] EXCEPT !.phase = "applied", !.applied = TRUE])
        /\ UNCHANGED <<backendVars, goals, sortedGoalsProj, sortedGoalsLump, projVars, modalVars,
                       fetchPending, isAutoAllocateModalOpen, isSubmitting, outcome>>

(* The backend answers with an error status (the goal is not found or not   *)
(* the user's, or a guard refuses): the action throws on !response.ok and   *)
(* returns { error }                                                        *)
StoreRejects ==
    \E i \in 1..Len(Requests) :
        /\ Requests[i].phase = "inFlight"
        /\ Settle(i, FALSE, Fulfilled(TRUE, Some(NotFoundMessage)))
        /\ UNCHANGED <<backendVars, store, goals, sortedGoalsProj, sortedGoalsLump, projVars, modalVars,
                       contributions, fetchPending, isAutoAllocateModalOpen, isSubmitting,
                       outcome>>

(* The updated goal comes back: the action returns it *)
ReplyDelivered ==
    \E i \in 1..Len(Requests) :
        /\ Requests[i].phase = "applied"
        /\ Settle(i, TRUE, Fulfilled(FALSE, Null))
        /\ UNCHANGED <<backendVars, store, goals, sortedGoalsProj, sortedGoalsLump, projVars, modalVars,
                       contributions, fetchPending, isAutoAllocateModalOpen, isSubmitting,
                       outcome>>

(* The store has applied the update but its answer does not reach the       *)
(* action: await fetch(...) or await response.json() throws, and the action *)
(* returns { error }                                                        *)
ReplyLost ==
    \E i \in 1..Len(Requests) :
        /\ Requests[i].phase = "applied"
        /\ Settle(i, TRUE, Fulfilled(TRUE, Some(FetchFailedMessage)))
        /\ UNCHANGED <<backendVars, store, goals, sortedGoalsProj, sortedGoalsLump, projVars, modalVars,
                       contributions, fetchPending, isAutoAllocateModalOpen, isSubmitting,
                       outcome>>

(* The call of the server action itself is rejected (network error, etc.),  *)
(* before the action ran or after it did                                    *)
CallRejected ==
    \E i \in 1..Len(Requests) :
        /\ Requests[i].phase \in {"inFlight", "applied"}
        /\ \E m \in RejectionMessages : Settle(i, Requests[i].applied, Rejected(m))
        /\ UNCHANGED <<backendVars, store, goals, sortedGoalsProj, sortedGoalsLump, projVars, modalVars,
                       contributions, fetchPending, isAutoAllocateModalOpen, isSubmitting,
                       outcome>>

(* results.forEach(...): st = [successCount, errorCount, firstErrorMessage] *)
CountResult_LastMessage(st, result) ==
    IF result.status = "fulfilled" /\ ~result.isError
    THEN [st EXCEPT !.successCount = @ + 1]
    ELSE [st EXCEPT !.errorCount = @ + 1,
                    !.firstErrorMessage =
                        IF IsNull(result.message)
                        THEN (IF result.status = "fulfilled" THEN UnknownAllocationError
                                                             ELSE NetworkOrUnexpectedError)
                        ELSE Val(result.message)]

CountResult(st, result) ==
    IF result.status = "fulfilled"
    THEN IF result.isError
         THEN [st EXCEPT !.errorCount = @ + 1,
                         !.firstErrorMessage =
                             IF st.firstErrorMessage = ""
                             THEN (IF IsNull(result.message) THEN UnknownAllocationError
                                                             ELSE Val(result.message))
                             ELSE @]
         ELSE [st EXCEPT !.successCount = @ + 1]
    ELSE [st EXCEPT !.errorCount = @ + 1,
                    !.firstErrorMessage =
                        IF st.firstErrorMessage = ""
                        THEN (IF IsNull(result.message) THEN NetworkOrUnexpectedError
                                                        ELSE Val(result.message))
                        ELSE @]

CountResults(reqs) ==
    LET f[n \in 0..Len(reqs)] ==
            IF n = 0 THEN [successCount |-> 0, errorCount |-> 0, firstErrorMessage |-> ""]
            ELSE CountResult(f[n-1], Val(reqs[n].result))
    IN  f[Len(reqs)]

(* Promise.allSettled resolves: the counting, the toast and the finally     *)
(* block (with the modal's reset effect and the fetchGoals() call)          *)
AllSettled ==
    /\ isSubmitting
    /\ ~IsNull(commit)
    /\ \A i \in 1..Len(Requests) : Requests[i].phase = "settled"
    /\ LET st == CountResults(Requests)
       IN  outcome' = Some([successCount |-> st.successCount,
                            errorCount |-> st.errorCount,
                            firstErrorMessage |-> st.firstErrorMessage,
                            toast |-> IF st.errorCount > 0 THEN "Allocation Partially Failed"
                                                           ELSE "Allocation Successful"])
    /\ isSubmitting' = FALSE
    /\ isAutoAllocateModalOpen' = FALSE
    /\ amountSaved' = Null
    /\ allocationPlan' = Null
    /\ showConfirmation' = FALSE
    /\ planInput' = Null
    /\ fetchPending' = TRUE
    /\ UNCHANGED <<backendVars, store, goals, sortedGoalsProj, sortedGoalsLump, projVars, contributions,
                   commit>>

(* fetchGoals() completes: setGoals(data), or the error branch *)
FetchGoalsReturns ==
    /\ fetchPending
    /\ fetchPending' = FALSE
    /\ \E ok \in BOOLEAN : goals' = IF ok THEN store ELSE goals
    /\ UNCHANGED <<backendVars, store, sortedGoalsProj, sortedGoalsLump, projVars, modalVars,
                   contributions, isAutoAllocateModalOpen, isSubmitting, commit, outcome>>

----------------------------------------------------------------------------
(* Specification of lump-sum mode: the AutoAllocateModal, the page's commit *)
(* handler and the goal store                                               *)

InitAllocate ==
    /\ goals \in AllocateSnapshots
    /\ store = goals
    /\ sortedGoalsProj = Null
    /\ sortedGoalsLump = Null
    /\ InitProjVars
    /\ InitModalVars
    /\ InitPageVars
    /\ InitBackendVars

NextAllocate ==
    \/ OpenAutoAllocateModal
    \/ CloseAutoAllocateModal
    \/ HandleAmountChange
    \/ CalculateAllocation
    \/ BackFromConfirmation
    \/ HandleConfirm
    \/ ActionFailsBeforeStore
    \/ StoreApplies
    \/ StoreRejects
    \/ ReplyDelivered
    \/ ReplyLost
    \/ CallRejected
    \/ AllSettled
    \/ FetchGoalsReturns

SpecAllocate == InitAllocate /\ [][NextAllocate]_vars

----------------------------------------------------------------------------
(* Specification of the sorting policy alone: the snapshot is any goal list *)
(* within the bounds, and each mode sorts it.                               *)

InitSort ==
    /\ goals \in GoalLists(AllAmounts, AllDeadlines, AllPriorities, MaxSortGoals)
    /\ store = goals
    /\ sortedGoalsProj = Null
    /\ sortedGoalsLump = Null
    /\ InitProjVars
    /\ InitModalVars
    /\ InitPageVars
    /\ InitBackendVars

SortForProjection ==
    /\ sortedGoalsProj' = Some(SortGoalsProj(goals))
    /\ UNCHANGED <<backendVars, store, goals, sortedGoalsLump, projVars, modalVars, pageVars>>

SortForLumpSum ==
    /\ sortedGoalsLump' = Some(SortGoalsLump(goals))
    /\ UNCHANGED <<backendVars, store, goals, sortedGoalsProj, projVars, modalVars, pageVars>>

NextSort == SortForProjection \/ SortForLumpSum

SpecSort == InitSort /\ [][NextSort]_vars

----------------------------------------------------------------------------
(* The ordering the sorting policy is to realise, stated from the keys *)

HasDeadline(g) == g.deadline # NoDeadline
HasPriority(g) == g.priority # NoPriority
RemainingOf(g) == IF g.targetAmount > g.currentAmount THEN g.targetAmount - g.currentAmount ELSE 0

DeadlineBefore(a, b) ==
    \/ HasDeadline(a) /\ ~HasDeadline(b)
    \/ HasDeadline(a) /\ HasDeadline(b) /\ a.deadline < b.deadline
DeadlineTie(a, b) ==
    \/ ~HasDeadline(a) /\ ~HasDeadline(b)
    \/ HasDeadline(a) /\ HasDeadline(b) /\ a.deadline = b.deadline
PriorityBefore(a, b) ==
    \/ HasPriority(a) /\ ~HasPriority(b)
    \/ HasPriority(a) /\ HasPriority(b) /\ a.priority < b.priority
PriorityTie(a, b) ==
    \/ ~HasPriority(a) /\ ~HasPriority(b)
    \/ HasPriority(a) /\ HasPriority(b) /\ a.priority = b.priority

KeyTie(a, b) == DeadlineTie(a, b) /\ PriorityTie(a, b) /\ RemainingOf(a) = RemainingOf(b)
KeyLeq(a, b) ==
    \/ DeadlineBefore(a, b)
    \/ DeadlineTie(a, b) /\ PriorityBefore(a, b)
    \/ DeadlineTie(a, b) /\ PriorityTie(a, b) /\ RemainingOf(a) <= RemainingOf(b)

IsPermutationOf(out, in) ==
    /\ Len(out) = Len(in)
    /\ \E p \in [1..Len(in) -> 1..Len(in)] :
          /\ \A i, j \in 1..Len(in) : i # j => p[i] # p[j]
          /\ \A i \in 1..Len(in) : out[p[i]] = in[i]

OrderedByKeys(out) == \A i, j \in 1..Len(out) : i < j => KeyLeq(out[i], out[j])

PositionOf(out, g) == CHOOSE k \in 1..Len(out) : out[k].id = g.id

KeepsInputOrderOnTies(out, in) ==
    \A i, j \in 1..Len(in) :
        (i < j /\ KeyTie(in[i], in[j])) => PositionOf(out, in[i]) < PositionOf(out, in[j])

----------------------------------------------------------------------------
(* Specification of projection mode: the GoalAllocator component over any   *)
(* snapshot within the bounds                                               *)

InitProjection ==
    /\ goals \in Snapshots
    /\ store = goals
    /\ sortedGoalsProj = Null
    /\ sortedGoalsLump = Null
    /\ InitProjVars
    /\ InitModalVars
    /\ InitPageVars
    /\ InitBackendVars

NextProjection == SetSavingsAmount \/ SetFrequency \/ HandleCalculate

SpecProjection == InitProjection /\ [][NextProjection]_vars

(* The completion epoch handleCalculate recorded for the goal at position i *)
(* of its sorted list; an unreachable goal (Infinity) is later than any     *)
EpochAt(i) == Val(goalCompletionPeriods)[Val(sortedGoalsProj)[i].id]
EpochGeq(a, b) == ~isFinite(a) \/ (isFinite(b) /\ a >= b)

(* C3 as stated: walking the sorted list, each goal's completion epoch is   *)
(* >= the epoch of the goal immediately before it.                          *)
C3_EpochsNeverDecrease ==
    ~IsNull(goalCompletionPeriods) =>
        \A i \in 2..Len(Val(sortedGoalsProj)) : EpochGeq(EpochAt(i), EpochAt(i-1))

(* C3 as amended: walking the sorted list, each goal that is not already    *)
(* met has a completion epoch >= the epoch of every goal before it (an      *)
(* already-met goal is recorded with epoch 0 wherever it stands).           *)
C3_EpochsNeverDecreaseAmongUnmet ==
    ~IsNull(goalCompletionPeriods) =>
        \A i, j \in 1..Len(Val(sortedGoalsProj)) :
            (i < j /\ RemainingOf(Val(sortedGoalsProj)[j]) > 0)
                => EpochGeq(EpochAt(j), EpochAt(i))

(* A projection over two unmet goals at a rate that does not divide the     *)
(* first remaining: the second completes strictly later than the first.     *)
C3_Witness ==
    /\ ~IsNull(goalCompletionPeriods)
    /\ Len(Val(sortedGoalsProj)) = 2
    /\ RemainingOf(Val(sortedGoalsProj)[1]) = 1
    /\ RemainingOf(Val(sortedGoalsProj)[2]) = 2
    /\ Val(calcInput).savingsAmount = Some(2)
    /\ EpochAt(1) = 1
    /\ EpochAt(2) = 2

----------------------------------------------------------------------------
(* Lump-sum plans *)

GoalWithId(gs, id) == gs[CHOOSE k \in 1..Len(gs) : gs[k].id = id]

PlanTotal(plan) ==
    LET f[n \in 0..Len(plan)] == IF n = 0 THEN 0 ELSE f[n-1] + plan[n].amountToAllocate
    IN  f[Len(plan)]

TotalRemaining(gs) ==
    LET f[n \in 0..Len(gs)] == IF n = 0 THEN 0 ELSE f[n-1] + RemainingOf(gs[n])
    IN  f[Len(gs)]

PlanComputed == ~IsNull(allocationPlan) /\ ~IsNull(planInput)
PlanGoals == Val(planInput).goals
PlanAmount == Val(Val(planInput).amount)
PlanRemaining(item) == RemainingOf(GoalWithId(PlanGoals, item.goalId))

(* C4: a computed plan has exactly one item per goal of the snapshot, each    *)
(* item allocates between 0 and its goal's remaining, and the items sum to at *)
(* most the amount.                                                           *)
C4_AllocationBounds ==
    PlanComputed =>
        LET plan == Val(allocationPlan)
        IN  /\ Len(plan) = Len(PlanGoals)
            /\ \A k \in 1..Len(PlanGoals) :
                  Cardinality({i \in 1..Len(plan) : plan[i].goalId = PlanGoals[k].id}) = 1
            /\ \A i \in 1..Len(plan) :
                  /\ 0 <= plan[i].amountToAllocate
                  /\ plan[i].amountToAllocate <= PlanRemaining(plan[i])
            /\ PlanTotal(plan) <= PlanAmount

(* A plan over two unmet goals whose pool runs out inside the second goal *)
C4_Witness ==
    /\ PlanComputed
    /\ Len(Val(allocationPlan)) = 2
    /\ Val(allocationPlan)[1].amountToAllocate = PlanRemaining(Val(allocationPlan)[1])
    /\ Val(allocationPlan)[1].amountToAllocate > 0
    /\ Val(allocationPlan)[2].amountToAllocate > 0
    /\ Val(allocationPlan)[2].amountToAllocate < PlanRemaining(Val(allocationPlan)[2])
    /\ PlanTotal(Val(allocationPlan)) = PlanAmount

(* Scenario B: remaining [A: 300, B: 600] in that sort order, lump sum 500 *)
ScenarioBGoals ==
    << [id |-> 1, targetAmount |-> 300, currentAmount |-> 0, deadline |-> 1, priority |-> 1],
       [id |-> 2, targetAmount |-> 1000, currentAmount |-> 400, deadline |-> 2, priority |-> 1] >>
ScenarioBPlan == AllocatePlan(SortGoalsLump(ScenarioBGoals), ScenarioBGoals, 500)

(* C5: in a computed plan (the plan is in sort order) a goal receives funds   *)
(* only if every goal before it received its full remaining, so at most one   *)
(* goal is funded partially; 500 over remaining [300, 600] gives 300 and 200. *)
C5_WaterfallOrder ==
    /\ PlanComputed =>
          LET plan == Val(allocationPlan)
          IN  /\ \A i, j \in 1..Len(plan) :
                    (i < j /\ plan[j].amountToAllocate > 0)
                        => plan[i].amountToAllocate = PlanRemaining(plan[i])
              /\ Cardinality({i \in 1..Len(plan) :
                                /\ plan[i].amountToAllocate > 0
                                /\ plan[i].amountToAllocate < PlanRemaining(plan[i])}) <= 1
    /\ Len(ScenarioBPlan) = 2
    /\ ScenarioBPlan[1].goalId = 1 /\ ScenarioBPlan[1].amountToAllocate = 300
    /\ ScenarioBPlan[2].goalId = 2 /\ ScenarioBPlan[2].amountToAllocate = 200
    /\ 500 - PlanTotal(ScenarioBPlan) = 0

(* A plan whose pool runs out inside the first of two unmet goals: the second *)
(* receives nothing.                                                          *)
C5_Witness ==
    /\ PlanComputed
    /\ Len(Val(allocationPlan)) = 2
    /\ Val(allocationPlan)[1].amountToAllocate > 0
    /\ Val(allocationPlan)[1].amountToAllocate < PlanRemaining(Val(allocationPlan)[1])
    /\ PlanRemaining(Val(allocationPlan)[2]) > 0
    /\ Val(allocationPlan)[2].amountToAllocate = 0

----------------------------------------------------------------------------
(* Validation *)

ValidAmount(amt) == ~IsNull(amt) /\ Val(amt) > 0

(* C7: nothing is computed from invalid input. Whatever projection output is  *)
(* on screen (sorted list, results, verdict) was computed from a positive     *)
(* amountPerPeriod and a non-empty goal list; whatever plan with items or     *)
(* confirmation view is on screen, and whatever commit was started, came from *)
(* a positive amount and a non-empty goal list.                               *)
C7_InvalidInputRejected ==
    /\ (~IsNull(allocationResults) \/ ~IsNull(verdict) \/ ~IsNull(sortedGoalsProj)) =>
          /\ ~IsNull(calcInput)
          /\ ValidAmount(Val(calcInput).savingsAmount)
          /\ Len(Val(calcInput).goals) > 0
    /\ ((~IsNull(allocationPlan) /\ Len(Val(allocationPlan)) > 0) \/ showConfirmation) =>
          /\ ~IsNull(planInput)
          /\ ValidAmount(Val(planInput).amount)
          /\ Len(Val(planInput).goals) > 0
    /\ alertShown => (IsNull(savingsAmount) \/ Val(savingsAmount) <= 0)

----------------------------------------------------------------------------
(* Commit of a plan *)

Failed(req) == Val(req.result).status = "rejected" \/ Val(req.result).isError
Succeeded(req) == Val(req.result).status = "fulfilled" /\ ~Val(req.result).isError

(* The message reported for a failed request *)
ReportedMessage(req) ==
    IF ~IsNull(Val(req.result).message) THEN Val(Val(req.result).message)
    ELSE IF Val(req.result).status = "rejected" THEN NetworkOrUnexpectedError
    ELSE UnknownAllocationError

CommitFinished == ~IsNull(commit) /\ ~IsNull(outcome)

(* C8: a finished commit of n items has issued and settled n requests, counts *)
(* successCount + errorCount = n with errorCount the number of failed         *)
(* requests, and reports the message of the failed request of lowest index.   *)
C8_PartialFailureAccounting ==
    CommitFinished =>
        LET reqs == Val(commit).requests
            n == Len(Val(commit).plan)
            failed == {i \in 1..Len(reqs) : Failed(reqs[i])}
        IN  /\ Len(reqs) = n
            /\ \A i \in 1..n : /\ reqs[i].phase = "settled"
                              /\ reqs[i].goalId = Val(commit).plan[i].goalId
                              /\ reqs[i].amount = Val(commit).plan[i].amountToAllocate
            /\ Val(outcome).successCount + Val(outcome).errorCount = n
            /\ Val(outcome).errorCount = Cardinality(failed)
            /\ Val(outcome).successCount = Cardinality({i \in 1..n : Succeeded(reqs[i])})
            /\ failed # {} =>
                  Val(outcome).firstErrorMessage =
                      ReportedMessage(reqs[CHOOSE i \in failed : \A k \in failed : i <= k])
            /\ failed = {} => Val(outcome).firstErrorMessage = ""

(* A finished commit of two items that both failed, with different messages,  *)
(* and one whose first item failed and second succeeded                       *)
C8_Witness ==
    /\ CommitFinished
    /\ Len(Val(commit).requests) = 2
    /\ Failed(Val(commit).requests[1]) /\ Failed(Val(commit).requests[2])
    /\ ReportedMessage(Val(commit).requests[1]) # ReportedMessage(Val(commit).requests[2])
    /\ Val(outcome).errorCount = 2

(* C9: over a whole commit the number of add-contribution requests issued for *)
(* a goal is 1 if its plan item allocates more than 0 and 0 otherwise, also   *)
(* after requests have failed.                                                *)
C9_OneRequestPerNonZeroItem ==
    ~IsNull(commit) =>
        LET raw == Val(commit).raw
            reqs == Val(commit).requests
        IN  \A k \in 1..Len(raw) :
                Cardinality({i \in 1..Len(reqs) : reqs[i].goalId = raw[k].goalId})
                    = IF raw[k].amountToAllocate > 0 THEN 1 ELSE 0

(* A finished commit of a plan with one funded and one unfunded item, whose   *)
(* only request failed                                                        *)
C9_Witness ==
    /\ CommitFinished
    /\ Len(Val(commit).raw) = 2
    /\ \E k \in 1..2 : Val(commit).raw[k].amountToAllocate = 0
    /\ Len(Val(commit).requests) = 1
    /\ Failed(Val(commit).requests[1])

CurrentAmountOf(docs, id) == GoalWithId(docs, id).currentAmount

(* C10 as stated: when the commit has finished, each goal whose request       *)
(* succeeded has currentAmount increased by exactly its amountToAllocate and  *)
(* each goal whose request failed is unchanged.                               *)
C10_SucceededAppliedFailedUnchanged ==
    CommitFinished =>
        \A i \in 1..Len(Val(commit).requests) :
            LET req == Val(commit).requests[i]
                before == CurrentAmountOf(Val(commit).storeAtStart, req.goalId)
                after == CurrentAmountOf(store, req.goalId)
            IN  /\ Succeeded(req) => after = before + req.amount
                /\ Failed(req) => after = before

(* C10 as amended: at every point of a commit, each goal whose request the    *)
(* goal store has applied holds exactly its amountToAllocate more than before *)
(* the commit, whatever happened to the other requests, and each other goal   *)
(* is unchanged; a request reported as succeeded has been applied, a request  *)
(* reported as failed may or may not have been.                               *)
C10_AppliedStaysApplied ==
    ~IsNull(commit) =>
        /\ \A i \in 1..Len(Val(commit).requests) :
              LET req == Val(commit).requests[i]
                  before == CurrentAmountOf(Val(commit).storeAtStart, req.goalId)
                  after == CurrentAmountOf(store, req.goalId)
              IN  /\ req.applied => after = before + req.amount
                  /\ ~req.applied => after = before
                  /\ (req.phase = "settled" /\ Succeeded(req)) => req.applied
        /\ \A k \in 1..Len(store) :
              (\A i \in 1..Len(Val(commit).requests) :
                    Val(commit).requests[i].goalId # store[k].id)
                  => store[k] = Val(commit).storeAtStart[k]

(* A finished commit of two items: the first was applied and reported as      *)
(* succeeded, the second failed at the store; the first goal keeps its funds. *)
C10_Witness ==
    /\ CommitFinished
    /\ Len(Val(commit).requests) = 2
    /\ Succeeded(Val(commit).requests[1])
    /\ Failed(Val(commit).requests[2]) /\ ~Val(commit).requests[2].applied
    /\ CurrentAmountOf(store, Val(commit).requests[1].goalId) =
          CurrentAmountOf(Val(commit).storeAtStart, Val(commit).requests[1].goalId)
              + Val(commit).requests[1].amount

----------------------------------------------------------------------------
(* Specification of the goal store alone: GoalService.addContribution called *)
(* concurrently by several requests. A call runs synchronously up to its     *)
(* await of findOneAndUpdate(...).exec(); the database then executes the     *)
(* update of each waiting call as one step, in any order.                    *)

MaxCalls == 3       \* calls of addContribution in one behaviour

Users == {"u1", "u2"}
(* ids a request can name: the documents of the store and one id that is not there *)
CallGoalIds == 1..(Len(store) + 1)
CallAmounts == (-1)..MaxAmount

MustBePositiveError == "Contribution amount must be positive."
GoalNotFoundError == "Goal not found or not owned by user"

CallFailed(message) == [ok |-> FALSE, message |-> message, currentAmount |-> 0]
(* this.buildGoalResponse(updatedGoal) *)
CallReturned(doc) == [ok |-> TRUE, message |-> "", currentAmount |-> doc.currentAmount]

InitStore ==
    /\ goals \in GoalLists(0..1, {NoDeadline}, {NoPriority}, MaxGoals)
    /\ store = goals
    /\ sortedGoalsProj = Null
    /\ sortedGoalsLump = Null
    /\ InitProjVars
    /\ InitModalVars
    /\ InitPageVars
    /\ userIds \in [1..Len(store) -> Users]
    /\ calls = <<>>

(* addContribution is entered: `if (amount <= 0) throw`, else the update is  *)
(* sent to the database and the call awaits it                               *)
AddContributionCalled ==
    /\ Len(calls) < MaxCalls
    /\ \E id \in CallGoalIds, amount \in CallAmounts, user \in Users :
          calls' = Append(calls,
                     [goalId |-> id, amount |-> amount, user |-> user,
                      phase |-> IF amount <= 0 THEN "returned" ELSE "awaiting",
                      result |-> IF amount <= 0 THEN Some(CallFailed(MustBePositiveError))
                                                ELSE Null])
    /\ UNCHANGED <<store, goals, sortedGoalsProj, sortedGoalsLump, projVars, modalVars,
                   pageVars, userIds>>

(* { _id: goalObjectId, userId: user._id } *)
MatchesFilter(docs, owners, id, user) == id \in 1..Len(docs) /\ owners[id] = user

(* findOneAndUpdate executes for one awaiting call: $inc and $push on the    *)
(* matching document in one step, or null when no document matches           *)
FindOneAndUpdate ==
    \E i \in 1..Len(calls) :
        /\ calls[i].phase = "awaiting"
        /\ IF MatchesFilter(store, userIds, calls[i].goalId, calls[i].user)
           THEN /\ store' = StoreAfterContribution(store, calls[i].goalId, calls[i].amount)
                /\ contributions' = ContributionsAfterPush(contributions, calls[i].goalId,
                                                           calls[i].amount)
                /\ calls' = [calls EXCEPT ![i].phase = "returned",
                                          ![i].result = Some(CallReturned(store'[calls[i].goalId]))]
           ELSE /\ calls' = [calls EXCEPT ![i].phase = "returned",
                                          ![i].result = Some(CallFailed(GoalNotFoundError))]
                /\ UNCHANGED <<store, contributions>>
        /\ UNCHANGED <<goals, sortedGoalsProj, sortedGoalsLump, projVars, modalVars,
                       fetchPending, isAutoAllocateModalOpen, isSubmitting, commit, outcome,
                       userIds>>

NextStore == AddContributionCalled \/ FindOneAndUpdate

SpecStore == InitStore /\ [][NextStore]_vars

----------------------------------------------------------------------------
(* C11 *)

CallSucceeded(i) == calls[i].phase = "returned" /\ Val(calls[i].result).ok
CallErrored(i) == calls[i].phase = "returned" /\ ~Val(calls[i].result).ok
SucceededOn(g) == { i \in 1..Len(calls) : CallSucceeded(i) /\ calls[i].goalId = g }

SumOfCalls(S) ==
    LET f[n \in 0..Len(calls)] ==
            IF n = 0 THEN 0 ELSE f[n-1] + (IF n \in S THEN calls[n].amount ELSE 0)
    IN  f[Len(calls)]

SumOfSeq(q) ==
    LET f[n \in 0..Len(q)] == IF n = 0 THEN 0 ELSE f[n-1] + q[n]
    IN  f[Len(q)]

(* C11: in every state of every interleaving of addContribution calls, each   *)
(* goal's currentAmount has grown by the sum of the amounts of the calls that *)
(* succeeded on it and its contributions by one record per such call (the     *)
(* increment and the append are never seen apart, no update is lost); a call  *)
(* succeeds only with a positive amount on a goal of the caller, and a call   *)
(* with amount <= 0 or on a goal that is not the caller's returns an error    *)
(* and is not counted in any goal.                                            *)
C11_AtomicPerGoal ==
    /\ \A g \in 1..Len(store) :
          /\ store[g].currentAmount = goals[g].currentAmount + SumOfCalls(SucceededOn(g))
          /\ Len(contributions[g]) = Cardinality(SucceededOn(g))
          /\ SumOfSeq(contributions[g]) = store[g].currentAmount - goals[g].currentAmount
          /\ [store[g] EXCEPT !.currentAmount = 0] = [goals[g] EXCEPT !.currentAmount = 0]
    /\ Len(store) = Len(goals)
    /\ \A i \in 1..Len(calls) :
          /\ CallSucceeded(i) =>
                /\ calls[i].amount > 0
                /\ calls[i].goalId \in 1..Len(store)
                /\ userIds[calls[i].goalId] = calls[i].user
          /\ (calls[i].phase = "returned"
                /\ (calls[i].amount <= 0
                      \/ calls[i].goalId \notin 1..Len(store)
                      \/ userIds[calls[i].goalId] # calls[i].user)) => CallErrored(i)

(* Two calls on the same goal were awaiting together and the database ran    *)
(* the later one first; both succeeded, a third call on a goal of another    *)
(* user failed, and the goal holds both amounts and both records.            *)
C11_Witness ==
    /\ Len(calls) = 3
    /\ calls[1].goalId = 1 /\ calls[2].goalId = 1
    /\ calls[1].amount # calls[2].amount
    /\ CallSucceeded(1) /\ CallSucceeded(2)
    /\ contributions[1] = <<calls[2].amount, calls[1].amount>>
    /\ store[1].currentAmount = goals[1].currentAmount + calls[1].amount + calls[2].amount
    /\ calls[3].goalId = 2 /\ Len(store) = 2 /\ calls[3].amount > 0 /\ CallErrored(3)
    /\ store[2] = goals[2] /\ contributions[2] = <<>>

----------------------------------------------------------------------------
(* Specification of the engine: both computations over one snapshot, the     *)
(* GoalAllocator and the AutoAllocateModal of the same page                  *)

InitEngine ==
    /\ goals \in AllocateSnapshots
    /\ store = goals
    /\ sortedGoalsProj = Null
    /\ sortedGoalsLump = Null
    /\ InitProjVars
    /\ InitModalVars
    /\ InitPageVars
    /\ InitBackendVars

NextEngine ==
    \/ SetSavingsAmount
    \/ HandleCalculate
    \/ OpenAutoAllocateModal
    \/ HandleAmountChange
    \/ CalculateAllocation

SpecEngine == InitEngine /\ [][NextEngine]_vars

----------------------------------------------------------------------------
(* Specification of the two computations as functions of their inputs: the   *)
(* body of handleCalculate after its validation, applied to any rate (the    *)
(* loop has a branch for savingsPerPeriod <= 0), and calculateAllocation     *)
(* through the modal                                                         *)

ComputationSnapshots == GoalLists(AllAmounts, {NoDeadline}, {NoPriority}, MaxSortGoals)

InitComputations ==
    /\ goals \in ComputationSnapshots
    /\ store = goals
    /\ sortedGoalsProj = Null
    /\ sortedGoalsLump = Null
    /\ InitProjVars
    /\ InitModalVars
    /\ InitPageVars
    /\ InitBackendVars

(* Scenario A: goal A (deadline 3 months out, remaining 300, priority 1) and *)
(* goal B (deadline 6 months out, remaining 600, priority 1), counted from  *)
(* instant 0                                                                *)
ScenarioAGoals ==
    << [id |-> 1, targetAmount |-> 300, currentAmount |-> 0,
        deadline |-> addMonths(0, 3), priority |-> 1],
       [id |-> 2, targetAmount |-> 1000, currentAmount |-> 400,
        deadline |-> addMonths(0, 6), priority |-> 1] >>

(* A single goal with no deadline and no priority, remaining 150, at 50 per month *)
ScenarioCGoals ==
    << [id |-> 1, targetAmount |-> 200, currentAmount |-> 50,
        deadline |-> NoDeadline, priority |-> NoPriority] >>

ScenarioSnapshots == {ScenarioAGoals, ScenarioCGoals}
ScenarioRates == {50, 100}

(* The rates a projection is computed for: the small rates over the small    *)
(* snapshots, the rates of the scenarios over their snapshots                *)
RatesFor(gs) == IF gs \in ScenarioSnapshots THEN ScenarioRates ELSE (-1)..MaxSavings

(* The dialog of the modal covers the page: the projection runs while it is *)
(* closed                                                                   *)
ProjectAtAnyRate ==
    \E amt \in RatesFor(goals), f \in Frequencies, now \in 0..MaxNow :
        /\ ~isAutoAllocateModalOpen
        /\ ComputeProjection(amt, f, now)
        /\ savingsAmount' = Some(amt)
        /\ frequency' = f

NextComputations ==
    \/ ProjectAtAnyRate
    \/ OpenAutoAllocateModal
    \/ HandleAmountChange
    \/ CalculateAllocation

SpecComputations == InitComputations /\ [][NextComputations]_vars

----------------------------------------------------------------------------
(* C13 *)

RateOf(input) == Val(input.savingsAmount)
IsAlreadyMet(g) == g.currentAmount >= g.targetAmount
IsUnreachable(g, rate) == g.currentAmount < g.targetAmount /\ rate <= 0
ProjectionOf(r) == <<r.projectedPeriods, r.projectedDate>>
ItemWithoutId(item) == [item EXCEPT !.goalId = 0]
ItemGoal(item) == GoalWithId(Val(planInput).goals, item.goalId)

----------------------------------------------------------------------------
(* Verdict and per-goal results of a projection *)

ResultsComputed == ~IsNull(allocationResults) /\ ~IsNull(verdict)
Results == Val(allocationResults)
SomeResultMissed == \E i \in 1..Len(Results) : Results[i].deadlineMet = Some(FALSE)

(* C14: the verdict's allMetOnTime is false exactly when some result has      *)
(* deadlineMet = false; results with deadlineMet true or null do not make it  *)
(* false.                                                                     *)
C14_AllMetUnlessSomeMissed ==
    ResultsComputed =>
        /\ Val(verdict).allMetOnTime = ~SomeResultMissed
        /\ (\A i \in 1..Len(Results) : Results[i].deadlineMet \in {Some(TRUE), Null})
              => Val(verdict).allMetOnTime

(* A projection whose results hold one deadlineMet = true and one unknown:    *)
(* allMetOnTime is true.                                                      *)
C14_Witness ==
    /\ ResultsComputed
    /\ Len(Results) = 2
    /\ \E i, j \in 1..2 : Results[i].deadlineMet = Some(TRUE) /\ Results[j].deadlineMet = Null
    /\ Val(verdict).allMetOnTime

CalcGoals == Val(calcInput).goals

(* C15: when no goal of the snapshot has a deadline, the verdict of a         *)
(* projection (any accepted rate, either frequency) is allMetOnTime = true    *)
(* with additionalSavingsNeeded = null.                                       *)
C15_NoDeadlineAllMet ==
    (ResultsComputed /\ \A i \in 1..Len(CalcGoals) : ~HasDeadline(CalcGoals[i])) =>
        /\ Val(verdict).allMetOnTime = TRUE
        /\ Val(verdict).additionalSavingsNeeded = Null

(* An annual projection over two unmet goals without deadlines *)
C15_Witness ==
    /\ ResultsComputed
    /\ Len(CalcGoals) = 2
    /\ \A i \in 1..2 : ~HasDeadline(CalcGoals[i]) /\ RemainingOf(CalcGoals[i]) > 0
    /\ Val(calcInput).frequency = "annually"
    /\ Val(verdict).allMetOnTime /\ Val(verdict).additionalSavingsNeeded = Null

----------------------------------------------------------------------------
(* Specification of the projection as a function of its inputs: the body of  *)
(* handleCalculate after its validation over any snapshot, rate, frequency   *)
(* and instant                                                               *)

InitEvaluation ==
    /\ goals \in ScenarioSnapshots \cup Snapshots
    /\ store = goals
    /\ sortedGoalsProj = Null
    /\ sortedGoalsLump = Null
    /\ InitProjVars
    /\ InitModalVars
    /\ InitPageVars
    /\ InitBackendVars

NextEvaluation == ProjectAtAnyRate

SpecEvaluation == InitEvaluation /\ [][NextEvaluation]_vars

(* C16: for a goal with a deadline, deadlineMet is true exactly when a        *)
(* projected date exists and is not after the deadline, and false otherwise;  *)
(* an unreachable goal has no projected date, deadlineMet = false and the     *)
(* label "Projected Miss".                                                    *)
C16_DeadlineMetIffProjectedInTime ==
    ResultsComputed =>
        \A i \in 1..Len(CalcGoals) :
            HasDeadline(CalcGoals[i]) =>
                /\ Results[i].deadlineMet =
                      Some(/\ ~IsNull(Results[i].projectedDate)
                           /\ Val(Results[i].projectedDate) <= CalcGoals[i].deadline)
                /\ IsNull(Results[i].projectedDate) =>
                      /\ Results[i].deadlineMet = Some(FALSE)
                      /\ Results[i].timeDifference.kind = "Projected Miss"
                /\ IsUnreachable(CalcGoals[i], RateOf(Val(calcInput))) =>
                      /\ IsNull(Results[i].projectedDate)
                      /\ Results[i].deadlineMet = Some(FALSE)
                      /\ Results[i].timeDifference.kind = "Projected Miss"

(* One projection at a positive rate over two goals with deadlines: one is   *)
(* projected in time, the other has a projected date after its deadline.     *)
C16_Witness ==
    /\ ResultsComputed
    /\ Len(CalcGoals) = 2
    /\ HasDeadline(CalcGoals[1]) /\ HasDeadline(CalcGoals[2])
    /\ RateOf(Val(calcInput)) > 0
    /\ \E i, j \in 1..2 :
          /\ Results[i].deadlineMet = Some(TRUE)
          /\ Results[j].deadlineMet = Some(FALSE)
          /\ ~IsNull(Results[j].projectedDate)
          /\ Val(Results[j].projectedDate) > CalcGoals[j].deadline

ScenarioCPeriods == SimulateFunding(SortGoalsProj(ScenarioCGoals), 50)
ScenarioCResult == EvaluateGoal(ScenarioCGoals[1], ScenarioCPeriods, "monthly", 0)

(* C17: for a goal without a deadline the result has deadlineMet = null and   *)
(* requiredPerPeriod = null, and its label is "Completes" when the goal has a *)
(* projected date (it is reachable) and "N/A*" when it has none; a single     *)
(* such goal with remaining 150 at 50 per month completes at epoch 3 with     *)
(* deadlineMet null and the label "Completes".                                *)
C17_NoDeadlineResult ==
    /\ ResultsComputed =>
          \A i \in 1..Len(CalcGoals) :
              ~HasDeadline(CalcGoals[i]) =>
                  /\ Results[i].deadlineMet = Null
                  /\ Results[i].requiredPerPeriod = Null
                  /\ Results[i].deadline = Null
                  /\ IsUnreachable(CalcGoals[i], RateOf(Val(calcInput))) <=>
                        IsNull(Results[i].projectedDate)
                  /\ Results[i].timeDifference.kind =
                        IF IsNull(Results[i].projectedDate) THEN "N/A*" ELSE "Completes"
    /\ ScenarioCPeriods[1] = 3
    /\ ScenarioCResult.projectedPeriods = Some(3)
    /\ ScenarioCResult.deadlineMet = Null
    /\ ScenarioCResult.requiredPerPeriod = Null
    /\ ScenarioCResult.timeDifference.kind = "Completes"

(* One projection at rate 0 over two goals without deadlines, one already met *)
(* ("Completes") and one unreachable ("N/A*")                                 *)
C17_Witness ==
    /\ ResultsComputed
    /\ Len(CalcGoals) = 2
    /\ ~HasDeadline(CalcGoals[1]) /\ ~HasDeadline(CalcGoals[2])
    /\ \E i, j \in 1..2 :
          /\ Results[i].timeDifference.kind = "Completes"
          /\ Results[j].timeDifference.kind = "N/A*"
          /\ Results[i].deadlineMet = Null /\ Results[j].deadlineMet = Null

ScenarioARun ==
    /\ ResultsComputed
    /\ CalcGoals = ScenarioAGoals
    /\ Val(calcInput).savingsAmount = Some(100)
    /\ Val(calcInput).frequency = "monthly"
    /\ Val(calcInput).now = 0

----------------------------------------------------------------------------
(* Specification of the sort and the sequential funding loop of              *)
(* handleCalculate alone (steps 1 and 2), over lists of up to three goals    *)
(* and any rate                                                              *)

SimulationSnapshots == GoalLists(AllAmounts, {NoDeadline, 1}, {NoPriority}, MaxSortGoals)

InitSimulation ==
    /\ goals \in SimulationSnapshots
    /\ store = goals
    /\ sortedGoalsProj = Null
    /\ sortedGoalsLump = Null
    /\ InitProjVars
    /\ InitModalVars
    /\ InitPageVars
    /\ InitBackendVars

SimulateAtAnyRate ==
    \E amt \in (-1)..MaxSavings :
        LET sortedGoals == SortGoalsProj(goals)
        IN  /\ sortedGoalsProj' = Some(sortedGoals)
            /\ goalCompletionPeriods' = Some(SimulateFunding(sortedGoals, amt))
            /\ calcInput' = Some([savingsAmount |-> Some(amt), goals |-> goals,
                                  frequency |-> frequency, now |-> 0])
            /\ savingsAmount' = Some(amt)
            /\ goals' = GoalsAfterSort(goals, sortedGoals)
            /\ UNCHANGED <<backendVars, store, sortedGoalsLump, frequency, allocationResults,
                           verdict, alertShown, modalVars, pageVars>>

NextSimulation == SimulateAtAnyRate

SpecSimulation == InitSimulation /\ [][NextSimulation]_vars

----------------------------------------------------------------------------
(* C19, C20 *)

Simulated == ~IsNull(goalCompletionPeriods) /\ ~IsNull(sortedGoalsProj) /\ ~IsNull(calcInput)
Sorted == Val(sortedGoalsProj)
Epochs == Val(goalCompletionPeriods)
Rate == RateOf(Val(calcInput))

(* the least q with q * b >= a, for a >= 0 and b > 0 *)
CeilingOf(a, b) == CHOOSE q \in 0..a : q * b >= a /\ \A r \in 0..a : r * b >= a => q <= r

(* sum of ceil(remaining / rate) over the unmet goals among the first k of the sorted list *)
PeriodsThrough(k) ==
    LET f[n \in 0..k] ==
            IF n = 0 THEN 0
            ELSE f[n-1] + (IF RemainingOf(Sorted[n]) > 0
                           THEN CeilingOf(RemainingOf(Sorted[n]), Rate) ELSE 0)
    IN  f[k]

(* C19: at a positive rate the completion epoch of a goal with remaining > 0  *)
(* is the sum of ceil(remaining_i / rate) over that goal and the goals before *)
(* it in sorted order that have remaining > 0: the counter starts at 0 and    *)
(* advances by these terms only.                                              *)
C19_EpochIsSumOfCeilings ==
    (Simulated /\ Rate > 0) =>
        \A k \in 1..Len(Sorted) :
            RemainingOf(Sorted[k]) > 0 => Epochs[Sorted[k].id] = PeriodsThrough(k)

(* Three unmet goals at rate 2 with remaining 1, 1, 2 (none a multiple more   *)
(* than once): epochs 1, 2, 3.                                                *)
C19_Witness ==
    /\ Simulated /\ Rate = 2
    /\ Len(Sorted) = 3
    /\ RemainingOf(Sorted[1]) = 1 /\ RemainingOf(Sorted[2]) = 1 /\ RemainingOf(Sorted[3]) = 2
    /\ Epochs[Sorted[1].id] = 1 /\ Epochs[Sorted[2].id] = 2 /\ Epochs[Sorted[3].id] = 3

UnmetOnly(gs) == SelectSeq(gs, LAMBDA g : ~IsAlreadyMet(g))

(* C20: at every rate a goal with currentAmount >= targetAmount has           *)
(* completion epoch 0 wherever it stands in the sorted list, and the goals    *)
(* that are not met have the epochs they would have were the met goals absent *)
(* from the list.                                                             *)
C20_MetGoalsCostNothing ==
    Simulated =>
        /\ \A k \in 1..Len(Sorted) : IsAlreadyMet(Sorted[k]) => Epochs[Sorted[k].id] = 0
        /\ \A k \in 1..Len(Sorted) :
              ~IsAlreadyMet(Sorted[k]) =>
                  Epochs[Sorted[k].id] = SimulateFunding(UnmetOnly(Sorted), Rate)[Sorted[k].id]

(* A met goal stands between two unmet goals in the sorted list *)
C20_Witness ==
    /\ Simulated /\ Rate = 1
    /\ Len(Sorted) = 3
    /\ ~IsAlreadyMet(Sorted[1]) /\ IsAlreadyMet(Sorted[2]) /\ ~IsAlreadyMet(Sorted[3])
    /\ Epochs[Sorted[2].id] = 0
    /\ Epochs[Sorted[3].id] = RemainingOf(Sorted[1]) + RemainingOf(Sorted[3])

----------------------------------------------------------------------------
(* C21 .. C28: the projection as a function of its inputs *)

EpochOf(g) == Val(goalCompletionPeriods)[g.id]

(* C21: at a rate <= 0 every goal with remaining > 0 is recorded with the     *)
(* infinite epoch and its result has projectedPeriods = null (and no          *)
(* projected date); the cumulative counter stays at 0: every epoch that is    *)
(* recorded as a number is 0.                                                 *)
C21_NonPositiveRateUnreachable ==
    (ResultsComputed /\ RateOf(Val(calcInput)) <= 0) =>
        \A i \in 1..Len(CalcGoals) :
            /\ RemainingOf(CalcGoals[i]) > 0 =>
                  /\ EpochOf(CalcGoals[i]) = Infinity
                  /\ Results[i].projectedPeriods = Null
                  /\ Results[i].projectedDate = Null
            /\ EpochOf(CalcGoals[i]) # Infinity => EpochOf(CalcGoals[i]) = 0

(* A projection at a negative rate over an unmet goal sorted before a met one *)
C21_Witness ==
    /\ ResultsComputed
    /\ RateOf(Val(calcInput)) = -1
    /\ Len(CalcGoals) = 2
    /\ RemainingOf(Val(sortedGoalsProj)[1]) > 0 /\ RemainingOf(Val(sortedGoalsProj)[2]) = 0
    /\ EpochAt(1) = Infinity /\ EpochAt(2) = 0
    /\ \E i \in 1..2 : Results[i].projectedPeriods = Null

(* addMonths / addYears by frequency *)
AddPeriods(t, n, freq) == IF freq = "monthly" THEN addMonths(t, n) ELSE addYears(t, n)

(* The number of whole periods that fit between two instants, from <= to *)
WholePeriodsWithin(from, to, freq) ==
    CHOOSE n \in 0..(to - from) :
        /\ AddPeriods(from, n, freq) <= to
        /\ AddPeriods(from, n + 1, freq) > to

(* Whole periods from the projected date to the deadline: positive when the  *)
(* deadline is later, negative when the projected date is later              *)
WholePeriodsFromTo(projected, deadline, freq) ==
    IF projected <= deadline THEN WholePeriodsWithin(projected, deadline, freq)
    ELSE -WholePeriodsWithin(deadline, projected, freq)

HasProjectedDate(i) == ~IsNull(Results[i].projectedDate)
CalcFrequency == Val(calcInput).frequency

(* C22: for a goal with a deadline and a projected date, with diffPeriods the *)
(* number of whole periods (months or years, by frequency) from the projected *)
(* date to the deadline, the label is "On time" when diffPeriods = 0,         *)
(* "diffPeriods ahead" when diffPeriods > 0 and "|diffPeriods| behind" when   *)
(* diffPeriods < 0.                                                           *)
C22_TimeDifferenceLabel ==
    ResultsComputed =>
        \A i \in 1..Len(CalcGoals) :
            (HasDeadline(CalcGoals[i]) /\ HasProjectedDate(i)) =>
                LET diffPeriods == WholePeriodsFromTo(Val(Results[i].projectedDate),
                                                      CalcGoals[i].deadline, CalcFrequency)
                IN  Results[i].timeDifference =
                        IF diffPeriods = 0 THEN Label("On time", 0)
                        ELSE IF diffPeriods > 0 THEN Label("ahead", diffPeriods)
                        ELSE Label("behind", -diffPeriods)

(* A monthly projection with one goal a whole month ahead of its deadline and *)
(* one goal whose projected date is more than one and less than two months    *)
(* after its deadline: 1 behind                                               *)
C22_Witness ==
    /\ ResultsComputed
    /\ Len(CalcGoals) = 2
    /\ CalcFrequency = "monthly"
    /\ \E i, j \in 1..2 :
          /\ Results[i].timeDifference = Label("ahead", 1)
          /\ Results[j].timeDifference = Label("behind", 1)
          /\ HasProjectedDate(j)
          /\ Val(Results[j].projectedDate) - CalcGoals[j].deadline > TicksPerMonth

CalcNow == Val(calcInput).now

(* The result of the projection of one goal alone at a given rate *)
AloneAt(g, rate, freq, now) == EvaluateGoal(g, SimulateFunding(<<g>>, rate), freq, now)

(* C23: for a goal with a deadline, with periodsToDeadline the whole periods  *)
(* from now to the deadline: when periodsToDeadline > 0, requiredPerPeriod is *)
(* a finite number with requiredPerPeriod * periodsToDeadline = remaining;    *)
(* otherwise it is the infinite amount when remaining > 0 and 0 when          *)
(* remaining = 0. It is the value the goal has when projected alone at any    *)
(* rate.                                                                      *)
C23_RequiredPerPeriod ==
    ResultsComputed =>
        \A i \in 1..Len(CalcGoals) :
            HasDeadline(CalcGoals[i]) =>
                LET g == CalcGoals[i]
                    periodsToDeadline == WholePeriodsFromTo(CalcNow, g.deadline, CalcFrequency)
                    required == Results[i].requiredPerPeriod
                IN  /\ ~IsNull(required)
                    /\ periodsToDeadline > 0 =>
                          /\ ~Val(required).inf
                          /\ Val(required).den > 0
                          /\ Val(required).num * periodsToDeadline
                                = RemainingOf(g) * Val(required).den
                    /\ periodsToDeadline <= 0 =>
                          /\ Val(required).inf = (RemainingOf(g) > 0)
                          /\ Val(required).num = 0
                    /\ \A rate \in (-1)..MaxSavings :
                          required = AloneAt(g, rate, CalcFrequency, CalcNow).requiredPerPeriod

(* A monthly projection from instant 1 over the goals of Scenario A: 2 and 5  *)
(* whole months remain, so 150 and 120 per month are required                 *)
C23_Witness ==
    /\ ResultsComputed
    /\ CalcGoals = ScenarioAGoals
    /\ CalcFrequency = "monthly" /\ CalcNow = 1
    /\ Results[1].requiredPerPeriod = Some([inf |-> FALSE, num |-> 300, den |-> 2])
    /\ Results[2].requiredPerPeriod = Some([inf |-> FALSE, num |-> 600, den |-> 5])

(* Exact fractions: equality and sum by cross-multiplication *)
SameFraction(p, q) == p.num * q.den = q.num * p.den
FractionSum(p, q) == [num |-> p.num * q.den + q.num * p.den, den |-> p.den * q.den]

CountsTowardTotal(r) ==
    ~IsNull(r.deadline) /\ ~IsNull(r.requiredPerPeriod) /\ ~Val(r.requiredPerPeriod).inf

(* T: the sum of requiredPerPeriod over the results with a deadline and a    *)
(* finite requiredPerPeriod                                                  *)
TotalRequiredForDeadlined ==
    LET f[n \in 0..Len(Results)] ==
            IF n = 0 THEN [num |-> 0, den |-> 1]
            ELSE IF CountsTowardTotal(Results[n])
                 THEN FractionSum(f[n-1], [num |-> Val(Results[n].requiredPerPeriod).num,
                                           den |-> Val(Results[n].requiredPerPeriod).den])
                 ELSE f[n-1]
    IN  f[Len(Results)]

(* max(0, T - rate) *)
ExpectedShortfall ==
    LET T == TotalRequiredForDeadlined
        rate == RateOf(Val(calcInput))
    IN  IF T.num > rate * T.den THEN [num |-> T.num - rate * T.den, den |-> T.den]
        ELSE [num |-> 0, den |-> 1]

(* C24: when allMetOnTime is false, additionalSavingsNeeded is                *)
(* max(0, T - rate) with T the sum of the finite requiredPerPeriod of the     *)
(* results that have a deadline (infinite and null values add nothing), and   *)
(* it is never negative; when allMetOnTime is true it is null.                *)
C24_ShortfallFormula ==
    ResultsComputed =>
        /\ Val(verdict).allMetOnTime => Val(verdict).additionalSavingsNeeded = Null
        /\ ~Val(verdict).allMetOnTime =>
              /\ ~IsNull(Val(verdict).additionalSavingsNeeded)
              /\ LET needed == Val(Val(verdict).additionalSavingsNeeded)
                 IN  /\ ~needed.inf
                     /\ needed.den > 0 /\ needed.num >= 0
                     /\ SameFraction(needed, ExpectedShortfall)

(* Scenario A at 100 per month: 100 + 100 is required, 100 more than is saved  *)
C24_Witness ==
    /\ ScenarioARun
    /\ ~Val(verdict).allMetOnTime
    /\ SameFraction(TotalRequiredForDeadlined, [num |-> 200, den |-> 1])
    /\ SameFraction(Val(Val(verdict).additionalSavingsNeeded), [num |-> 100, den |-> 1])

----------------------------------------------------------------------------
(* C25 *)

SignOf(n) == IF n < 0 THEN -1 ELSE IF n > 0 THEN 1 ELSE 0

----------------------------------------------------------------------------
(* C26 *)

----------------------------------------------------------------------------
(* C27 *)

(* C27: for every goal with a deadline and a projected date the flag and the  *)
(* label agree: deadlineMet is false exactly when the label is "behind", and  *)
(* true exactly when the label is "On time" or "ahead", also when the         *)
(* projected date falls less than one whole period after the deadline.        *)
C27_FlagAgreesWithLabel ==
    ResultsComputed =>
        \A i \in 1..Len(CalcGoals) :
            (HasDeadline(CalcGoals[i]) /\ HasProjectedDate(i)) =>
                /\ (Results[i].deadlineMet = Some(FALSE))
                      <=> (Results[i].timeDifference.kind = "behind")
                /\ (Results[i].deadlineMet = Some(TRUE))
                      <=> (Results[i].timeDifference.kind \in {"On time", "ahead"})

----------------------------------------------------------------------------
(* C28 *)

(* C28: a goal that is already met (currentAmount >= targetAmount) never has  *)
(* deadlineMet = false, whatever its deadline and whatever the other goals    *)
(* are, so it never makes allMetOnTime false.                                 *)
C28_MetGoalNeverMisses ==
    ResultsComputed =>
        \A i \in 1..Len(CalcGoals) :
            IsAlreadyMet(CalcGoals[i]) => Results[i].deadlineMet # Some(FALSE)

----------------------------------------------------------------------------
(* Specification of the commit lifecycle: lump-sum mode over small           *)
(* snapshots, where every request that was issued is eventually settled (the *)
(* promise of a server-action call resolves or rejects) and the continuation *)
(* of `await Promise.allSettled(...)` runs once all of them are              *)

LifecycleSnapshots == GoalLists(0..1, {NoDeadline}, {NoPriority}, MaxGoals)

InitLifecycle ==
    /\ goals \in LifecycleSnapshots
    /\ store = goals
    /\ sortedGoalsProj = Null
    /\ sortedGoalsLump = Null
    /\ InitProjVars
    /\ InitModalVars
    /\ InitPageVars
    /\ InitBackendVars

(* A request in flight moves toward its settlement *)
RequestProgresses ==
    \/ ActionFailsBeforeStore
    \/ StoreApplies
    \/ StoreRejects
    \/ ReplyDelivered
    \/ ReplyLost
    \/ CallRejected

SpecLifecycle ==
    /\ InitLifecycle
    /\ [][NextAllocate]_vars
    /\ WF_vars(RequestProgresses)
    /\ WF_vars(AllSettled)

----------------------------------------------------------------------------
(* C29 *)

ModalReset ==
    /\ amountSaved = Null
    /\ allocationPlan = Null
    /\ showConfirmation = FALSE

CommitSettled ==
    /\ ~isSubmitting
    /\ ~isAutoAllocateModalOpen
    /\ ModalReset
    /\ fetchPending
    /\ CommitFinished

(* C29: while a commit is in flight (isSubmitting) Confirm cannot act; a step *)
(* that starts a commit takes a plan that no commit was started with before;  *)
(* the step that ends a commit leaves isSubmitting false, the modal closed,   *)
(* its amount, plan and confirmation reset and a refetch issued; and every    *)
(* commit that has started does end, whether all, some or none of its         *)
(* requests succeeded.                                                        *)
C29_CommitLifecycle ==
    /\ [](isSubmitting => ~ENABLED HandleConfirm)
    /\ [][(~isSubmitting /\ isSubmitting') =>
             (~IsNull(planInput) /\ ~Val(planInput).confirmed /\ Val(planInput').confirmed)]_vars
    /\ [][(isSubmitting /\ ~isSubmitting') => CommitSettled']_vars
    /\ (isSubmitting ~> CommitSettled)

(* A commit of two requests has just ended with one success and one failure *)
C29_Witness ==
    /\ CommitSettled
    /\ Len(Val(commit).requests) = 2
    /\ Val(outcome).successCount = 1 /\ Val(outcome).errorCount = 1

----------------------------------------------------------------------------
(* C30 *)

CommitSnapshot == Val(Val(commit).input).goals
CommitAmount == Val(Val(Val(commit).input).amount)

(* The goal store at the start of the commit is the snapshot the plan was    *)
(* computed from                                                             *)
SnapshotWasCurrent == CommitSnapshot = Val(commit).storeAtStart

(* What the store holds more than the snapshot did, over all goals *)
TotalAdded ==
    LET f[n \in 0..Len(store)] ==
            IF n = 0 THEN 0
            ELSE f[n-1] + (store[n].currentAmount - CommitSnapshot[n].currentAmount)
    IN  f[Len(store)]

(* C30: when the goal store at the start of a commit is the snapshot its plan *)
(* was computed from, then during and after the commit every goal that had    *)
(* currentAmount <= targetAmount in the snapshot still has, each goal whose   *)
(* request succeeded holds its snapshot currentAmount plus its                *)
(* amountToAllocate, and the store holds in total at most the amount entered  *)
(* more than the snapshot.                                                    *)
C30_CommitNeverOverfunds ==
    (~IsNull(commit) /\ SnapshotWasCurrent) =>
        /\ \A k \in 1..Len(store) :
              CommitSnapshot[k].currentAmount <= CommitSnapshot[k].targetAmount
                  => store[k].currentAmount <= store[k].targetAmount
        /\ \A i \in 1..Len(Val(commit).requests) :
              LET req == Val(commit).requests[i]
              IN  (req.phase = "settled" /\ Succeeded(req)) =>
                      CurrentAmountOf(store, req.goalId)
                          = CurrentAmountOf(CommitSnapshot, req.goalId) + req.amount
        /\ TotalAdded <= CommitAmount
        /\ TotalAdded >= 0

(* A finished commit of two requests that both succeeded: the amount entered  *)
(* filled the first goal up to its target, with an amount already there, and  *)
(* the rest went to the second goal without filling it.                       *)
C30_Witness ==
    /\ CommitFinished /\ SnapshotWasCurrent
    /\ Len(Val(commit).requests) = 2
    /\ \A i \in 1..2 : Succeeded(Val(commit).requests[i])
    /\ TotalAdded = CommitAmount
    /\ \E a, b \in 1..2 :
          /\ CommitSnapshot[a].currentAmount > 0
          /\ store[a].currentAmount = store[a].targetAmount
          /\ store[b].currentAmount < store[b].targetAmount
          /\ store[b].currentAmount > CommitSnapshot[b].currentAmount

====
